---- MODULE Spec2Model ----
(***************************************************************************)
(* Reset and Clock Control of stm32h7xx-hal: the Config builder with its   *)
(* implied clock specifications (src/src/rcc/mod.rs) and the PLL set-up    *)
(* (src/src/rcc/pll.rs): vco_setup!, pll_setup! and the four vco_setup_*   *)
(* tests that drive vco_setup!, calc_fracn, calc_vco_ck and calc_ck_div.   *)
(* The register sequence of freeze and the peripheral enable/reset handles *)
(* follow, with Qspi::qspi_unchecked (src/src/xspi/qspi.rs) statement by   *)
(* statement.                                                              *)
(*                                                                         *)
(* Frequencies are exact integer hertz, as in the source (u32).  All the   *)
(* values the model draws stay below 2^31, where no u32 sum, product or    *)
(* i32 cast of the source wraps.                                           *)
(***************************************************************************)
EXTENDS Integers, FiniteSets, Sequences, TLC

VARIABLES
    \* ---- rcc::Config builder and the resolved clock tree
    config,         \* Config: field -> Option<u32>
    strategy,       \* Config.pllN.strategy: "pll1".."pll3" -> PllConfigStrategy
    bypass_hse,     \* Config.bypass_hse
    supplied,       \* ghost: field -> the value the user last supplied
    calls,          \* number of setter calls made so far
    phase,          \* "building" | "frozen"
    resolved,       \* the clock specifications after implication
    \* ---- one run of pll1_setup or of a vco_setup_* test
    caller,         \* which function runs
    pll_strategy,   \* the PllConfigStrategy the run uses
    pllsrc,         \* PLL source frequency
    pll_p_target,   \* Option: requested P output
    pll_q_target,   \* requested Q output
    pll_r_target,   \* requested R output
    pc,             \* position of the run
    ref_x_ck,       \* Option: reference (PFD input) frequency
    pll_x_m,        \* Option: input divider
    pll_x_p,        \* Option: P divider
    vco_ck_target,  \* Option: target VCO frequency
    pll_x_n,        \* Option: integer feedback divider
    pll_x_fracn,    \* Option: fractional feedback value
    vco_ck_achieved,\* Option: achieved VCO frequency
    pll_x_q,        \* Option: Q divider
    pll_x_r,        \* Option: R divider
    pllXrge,        \* PLLCFGR.pllXrge field: "reset" or the range written
    pll_ck,         \* Option: what pll1_setup returned
    \* ---- one run of freeze over the RCC register block
    fpc,            \* position of freeze
    frz_hse,        \* the resolved Config uses the external oscillator
    frz_plls,       \* the PLL units the resolved Config uses
    frz_sys,        \* the source of sys_ck: "HSI" | "HSE" | "PLL1"
    frz_feasible,   \* every used PLL has a legal set of dividers
    hseon,          \* CR.HSEON
    hserdy,         \* CR.HSERDY, set by the hardware
    pllon,          \* CR.PLLxON: unit -> BOOLEAN
    pllrdy,         \* CR.PLLxRDY (locked), set by the hardware
    pll_divs,       \* unit -> number of writes of the unit's divider fields
    sw_sel,         \* the sys clock source field value chosen
    prescalers,     \* the bus prescalers have been programmed
    sw,             \* CFGR.SW: the system clock multiplexer
    \* ---- peripheral enable/reset handles and Qspi::qspi_unchecked
    handles,        \* the live handles: set of <<peripheral, owner>>
    rcc_en,         \* peripheral -> its clock enable bit in RCC
    consumed,       \* ghost: peripheral -> its handle was passed to a driver
    late_op,        \* ghost: peripheral -> an operation came after consumption
    qpc,            \* position of qspi_unchecked
    q_kernel_ck,    \* Option: Self::get_clock(clocks)
    q_frequency,    \* config.frequency.0
    q_bank,         \* bank
    q_fthres,       \* config.fifo_threshold
    q_checks,       \* the build has overflow checks
    cr_en,          \* QUADSPI CR.EN
    sr_busy,        \* QUADSPI SR.BUSY, cleared by the hardware
    qspi_log        \* the accesses made to QUADSPI registers, in order

cfgVars == <<config, strategy, bypass_hse, supplied, calls, phase, resolved>>

pllVars == <<caller, pll_strategy, pllsrc, pll_p_target, pll_q_target,
             pll_r_target, pc, ref_x_ck, pll_x_m, pll_x_p, vco_ck_target,
             pll_x_n, pll_x_fracn, vco_ck_achieved, pll_x_q, pll_x_r, pllXrge,
             pll_ck>>

frzVars == <<fpc, frz_hse, frz_plls, frz_sys, frz_feasible, hseon, hserdy,
             pllon, pllrdy, pll_divs, sw_sel, prescalers, sw>>

qspiVars == <<handles, rcc_en, consumed, late_op, qpc, q_kernel_ck,
              q_frequency, q_bank, q_fthres, q_checks, cr_en, sr_busy,
              qspi_log>>

vars == <<cfgVars, pllVars, frzVars, qspiVars>>

-----------------------------------------------------------------------------
(* Option<T>: None is the empty set, Some(v) the singleton.                *)

None == {}

Some(v) == {v}

IsSome(o) == o # {}

Unwrap(o) == CHOOSE v \in o : TRUE

UnwrapOr(o, d) == IF o = {} THEN d ELSE CHOOSE v \in o : TRUE

-----------------------------------------------------------------------------
(* Program constants                                                       *)

HSI == 64000000

PllStrategies == {"Normal", "Iterative", "Fractional", "FractionalNotLess"}

\* The Option<u32> fields of Config; pllN_x_ck stands for Config.pllN.x_ck.
ClockFields ==
    {"hse", "sys_ck", "per_ck", "rcc_hclk",
     "rcc_pclk1", "rcc_pclk2", "rcc_pclk3", "rcc_pclk4",
     "pll1_p_ck", "pll1_q_ck", "pll1_r_ck",
     "pll2_p_ck", "pll2_q_ck", "pll2_r_ck",
     "pll3_p_ck", "pll3_q_ck", "pll3_r_ck"}

PllUnits == {"pll1", "pll2", "pll3"}

-----------------------------------------------------------------------------
(* Bounds of the model                                                     *)

\* Setter calls made on one Config before freeze.
MaxSetterCalls == 3

\* Frequencies the user may pass to a setter: HSI itself, a crystal, a
\* PLL-only frequency, and an odd one (so that c / 2 rounds).
SetterFreqs == {HSI, 25000000, 200000000, 33333333}

-----------------------------------------------------------------------------
(* Config builder.  The setters write one field each.                      *)

ConfigDefault == [f \in ClockFields |-> None]

\* A setter of a clock field: use_hse(v), sys_ck(v), pll1_p_ck(v), ...
SetClock(f, v) ==
    /\ phase = "building"
    /\ calls < MaxSetterCalls
    /\ config' = [config EXCEPT ![f] = Some(v)]
    /\ supplied' = [supplied EXCEPT ![f] = Some(v)]
    /\ calls' = calls + 1
    /\ UNCHANGED <<strategy, bypass_hse, phase, resolved>>

\* pllN_strategy(s)
SetStrategy(u, s) ==
    /\ phase = "building"
    /\ calls < MaxSetterCalls
    /\ strategy' = [strategy EXCEPT ![u] = s]
    /\ calls' = calls + 1
    /\ UNCHANGED <<config, bypass_hse, supplied, phase, resolved>>

\* bypass_hse()
BypassHse ==
    /\ phase = "building"
    /\ calls < MaxSetterCalls
    /\ bypass_hse = FALSE
    /\ bypass_hse' = TRUE
    /\ calls' = calls + 1
    /\ UNCHANGED <<config, strategy, supplied, phase, resolved>>

-----------------------------------------------------------------------------
(* Implied clock specifications (module documentation of rcc):             *)
(*   use_hse(a) implies sys_ck(a);                                         *)
(*   sys_ck(b) implies pll1_p_ck(b) unless b equals HSI or use_hse(b) was  *)
(*   specified;                                                            *)
(*   pll1_p_ck(c) implies pll1_r_ck(c/2), also when pll1_p_ck was implied; *)
(*   an implied specification is overridden by an explicit one.            *)

\* An explicit specification wins over the implied one.
Overridable_ImpliedWins(explicit, implied) ==
    IF IsSome(implied) THEN implied ELSE explicit

Overridable(explicit, implied) == IF IsSome(explicit) THEN explicit ELSE implied

\* use_hse(a) implies sys_ck(a)
ImpliedSysCk(c) == c["hse"]

\* sys_ck(b) implies pll1_p_ck(b) unless b equals HSI or use_hse(b) was specified
ImpliedPll1P_IgnoresUseHse(c, sys) ==
    IF IsSome(sys) /\ Unwrap(sys) # HSI THEN sys ELSE None

ImpliedPll1P_IgnoresHSI(c, sys) ==
    IF IsSome(sys) /\ c["hse"] # sys THEN sys ELSE None

ImpliedPll1P(c, sys) ==
    IF IsSome(sys) /\ Unwrap(sys) # HSI /\ c["hse"] # sys THEN sys ELSE None

\* pll1_p_ck(c) implies pll1_r_ck(c/2)
ImpliedPll1R_NotHalved(p) == p

ImpliedPll1R(p) == IF IsSome(p) THEN Some(Unwrap(p) \div 2) ELSE None

Resolve(c) ==
    LET sys == Overridable(c["sys_ck"], ImpliedSysCk(c))
        p   == Overridable(c["pll1_p_ck"], ImpliedPll1P(c, sys))
        r   == Overridable(c["pll1_r_ck"], ImpliedPll1R(p))
    IN  [c EXCEPT !["sys_ck"] = sys, !["pll1_p_ck"] = p, !["pll1_r_ck"] = r]

\* freeze: consumes the Config; the implied specifications are resolved.
Freeze ==
    /\ phase = "building"
    /\ resolved' = Resolve(config)
    /\ phase' = "frozen"
    /\ UNCHANGED <<config, strategy, bypass_hse, supplied, calls>>

CfgInit ==
    /\ config = ConfigDefault
    /\ strategy = [u \in PllUnits |-> "Normal"]
    /\ bypass_hse = FALSE
    /\ supplied = ConfigDefault
    /\ calls = 0
    /\ phase = "building"
    /\ resolved = ConfigDefault

PllIdle ==
    /\ caller = "none"
    /\ pll_strategy = "Normal"
    /\ pllsrc = HSI
    /\ pll_p_target = None
    /\ pll_q_target = None
    /\ pll_r_target = None
    /\ pc = "idle"
    /\ ref_x_ck = None
    /\ pll_x_m = None
    /\ pll_x_p = None
    /\ vco_ck_target = None
    /\ pll_x_n = None
    /\ pll_x_fracn = None
    /\ vco_ck_achieved = None
    /\ pll_x_q = None
    /\ pll_x_r = None
    /\ pllXrge = "reset"
    /\ pll_ck = None

\* The RCC after reset: HSI runs and feeds sys_ck; HSE and the PLLs are off.
RccReset ==
    /\ hseon = FALSE
    /\ hserdy = FALSE
    /\ pllon = [u \in PllUnits |-> FALSE]
    /\ pllrdy = [u \in PllUnits |-> FALSE]
    /\ pll_divs = [u \in PllUnits |-> 0]
    /\ sw_sel = "HSI"
    /\ prescalers = FALSE
    /\ sw = "HSI"

FrzIdle ==
    /\ fpc = "idle"
    /\ frz_hse = FALSE
    /\ frz_plls = {}
    /\ frz_sys = "HSI"
    /\ frz_feasible = TRUE
    /\ RccReset

RecPeripherals == {"QSPI", "GPIOG"}

QspiLocalsIdle ==
    /\ qpc = "idle"
    /\ q_kernel_ck = None
    /\ q_frequency = 0
    /\ q_bank = "One"
    /\ q_fthres = 1
    /\ q_checks = TRUE
    /\ sr_busy = FALSE
    /\ qspi_log = <<>>

QspiIdle ==
    /\ handles = {<<p, "ccdr">> : p \in RecPeripherals}
    /\ rcc_en = [p \in RecPeripherals |-> FALSE]
    /\ consumed = [p \in RecPeripherals |-> FALSE]
    /\ late_op = [p \in RecPeripherals |-> FALSE]
    /\ cr_en = FALSE
    /\ QspiLocalsIdle

Init == CfgInit /\ PllIdle /\ FrzIdle /\ QspiIdle

SetClockStep == \E f \in ClockFields, v \in SetterFreqs : SetClock(f, v)

SetStrategyStep == \E u \in PllUnits, s \in PllStrategies : SetStrategy(u, s)

Next ==
    \/ SetClockStep /\ UNCHANGED <<pllVars, frzVars, qspiVars>>
    \/ SetStrategyStep /\ UNCHANGED <<pllVars, frzVars, qspiVars>>
    \/ BypassHse /\ UNCHANGED <<pllVars, frzVars, qspiVars>>
    \/ Freeze /\ UNCHANGED <<pllVars, frzVars, qspiVars>>

Spec == Init /\ [][Next]_vars

-----------------------------------------------------------------------------
(* PLL set-up (rcc/pll.rs)                                                 *)

\* Bounds: PLL source frequencies are the multiples of 500 kHz up to
\* MaxSrcHalfMHz / 2 MHz, and the edges of the input divider's range.
MaxSrcHalfMHz == 52

PllSrcs ==
    {k * 500000 : k \in 0..MaxSrcHalfMHz}
        \cup {1999999, 16000001, HSI, 127999999, 128000000,
              1008000000, 1008000001}

\* Requested P outputs, and the (Q, R) outputs requested with them: the
\* values of the four tests.
PTargets == {242000000, 240000000, 48000 * 256}

QRTargets ==
    {<<120900000, 30200000>>, <<120000000, 30000000>>,
     <<48000 * 128, 48000 * 63>>}

PllTests ==
    {"vco_setup_normal", "vco_setup_iterative", "vco_setup_fractional",
     "vco_setup_fractional_not_less"}

\* The strategy each test passes to calc_ck_div, and sets up the VCO for.
TestStrategy(t) ==
    CASE t = "vco_setup_normal" -> "Normal"
      [] t = "vco_setup_iterative" -> "Iterative"
      [] t = "vco_setup_fractional" -> "Fractional"
      [] OTHER -> "FractionalNotLess"

\* vco_output_divider_setup!: (vco_ck, pll_x_p)
VcoOutputDividerSetup(output) == <<0, 0>>

\* vco_setup!(NORMAL: ...): (ref_x_ck, pll_x_m, pll_x_p, vco_ck_target);
\* no register is written.
VcoSetupNormal(src, output) ==
    [panic |-> FALSE, ref_x_ck |-> 0, pll_x_m |-> 0, pll_x_p |-> 0,
     vco_ck_target |-> 0, rge |-> "unwritten"]

\* Input divisor range of vco_setup!(ITERATIVE: ...)
PllXMMin_Floor(src) == src \div 16000000

PllXMMin(src) == (src + 15999999) \div 16000000

PllXMMax(src) ==
    IF src <= 127999999 THEN src \div 2000000 ELSE 63

\* The closure given to min_by_key divides by pll_x_m and by ref_x_ck.
KeyDividesByZero(src, m) == m = 0 \/ src \div m = 0

\* The closure's key: vco_ck_target as i32 - (ref_x_ck * pll_x_n) as i32
MinKey(src, target, m) ==
    LET ref == src \div m
        n   == target \div ref
    IN  target - ref * n

\* Iterator::min_by_key: the first of the elements with the least key.
MinByKey_Last(src, target, S) ==
    CHOOSE m \in S : \A x \in S :
        \/ MinKey(src, target, m) < MinKey(src, target, x)
        \/ MinKey(src, target, m) = MinKey(src, target, x) /\ m >= x

MinByKey(src, target, S) ==
    CHOOSE m \in S : \A x \in S :
        \/ MinKey(src, target, m) < MinKey(src, target, x)
        \/ MinKey(src, target, m) = MinKey(src, target, x) /\ m <= x

\* The pllXrge value written for a reference clock
PllXrge(ref) ==
    IF ref >= 2000000 /\ ref <= 3999999 THEN "range2"
    ELSE IF ref >= 4000000 /\ ref <= 7999999 THEN "range4"
    ELSE "range8"

Panicked_AfterRgeWrite ==
    [panic |-> TRUE, ref_x_ck |-> 0, pll_x_m |-> 0, pll_x_p |-> 0,
     vco_ck_target |-> 0, rge |-> "range8"]

Panicked == [panic |-> TRUE, ref_x_ck |-> 0, pll_x_m |-> 0, pll_x_p |-> 0,
             vco_ck_target |-> 0, rge |-> "unwritten"]

\* The iterative search of vco_setup!(ITERATIVE: ...) for pll_x_m: None
\* stands for its panics, a division by zero in the closure or the unwrap
\* of the empty range's None.
PllXMSearch(src, target) ==
    LET S == PllXMMin(src)..PllXMMax(src)
    IN  IF S = {} \/ \E m \in S : KeyDividesByZero(src, m)
        THEN None
        ELSE Some(MinByKey(src, target, S))

\* vco_setup!(ITERATIVE: ...): panics in the search for pll_x_m; else
\* writes pllXrge.
VcoSetupIterative(src, output) ==
    LET od     == VcoOutputDividerSetup(output)
        target == od[1]
        p      == od[2]
        found  == PllXMSearch(src, target)
    IN  IF found = None
        THEN Panicked
        ELSE LET m   == Unwrap(found)
                 ref == src \div m
             IN  [panic |-> FALSE, ref_x_ck |-> ref, pll_x_m |-> m,
                  pll_x_p |-> p, vco_ck_target |-> target,
                  rge |-> PllXrge(ref)]

\* The arm of vco_setup! that pll_setup! and the tests take for a strategy
VcoSetup(strat, src, output) ==
    IF strat = "Normal" THEN VcoSetupNormal(src, output)
    ELSE VcoSetupIterative(src, output)

\* The register write vco_setup! has made, if any
WriteRge(v) == pllXrge' = IF v.rge = "unwritten" THEN pllXrge ELSE v.rge

\* The locals bound by vco_setup!, and the register write it makes
BindVcoSetup(v) ==
    /\ ref_x_ck' = Some(v.ref_x_ck)
    /\ pll_x_m' = Some(v.pll_x_m)
    /\ pll_x_p' = Some(v.pll_x_p)
    /\ vco_ck_target' = Some(v.vco_ck_target)
    /\ WriteRge(v)

\* pll1_setup (pll_setup!): sourced from HSE or HSI; with a P output
\* requested, sets up the VCO for the strategy; returns (None, None, None).
Pll1Setup ==
    /\ caller = "pll1_setup"
    /\ pc = "start"
    /\ pllsrc' = UnwrapOr(config["hse"], HSI)
    /\ pll_strategy' = strategy["pll1"]
    /\ pll_p_target' = config["pll1_p_ck"]
    /\ IF IsSome(config["pll1_p_ck"])
       THEN LET v == VcoSetup(strategy["pll1"], UnwrapOr(config["hse"], HSI),
                              Unwrap(config["pll1_p_ck"]))
            IN  IF v.panic
                THEN /\ pc' = "panicked"
                     /\ WriteRge(v)
                     /\ UNCHANGED <<ref_x_ck, pll_x_m, pll_x_p, vco_ck_target,
                                    pll_ck>>
                ELSE /\ pc' = "returned"
                     /\ BindVcoSetup(v)
                     /\ pll_ck' = Some(<<None, None, None>>)
       ELSE /\ pc' = "returned"
            /\ pll_ck' = Some(<<None, None, None>>)
            /\ UNCHANGED <<ref_x_ck, pll_x_m, pll_x_p, vco_ck_target, pllXrge>>
    /\ UNCHANGED <<caller, pll_q_target, pll_r_target, pll_x_n, pll_x_fracn,
                   vco_ck_achieved, pll_x_q, pll_x_r>>

\* tests: let (ref_x_ck, pll_x_m, pll_x_p, vco_ck_target) = vco_setup! {...}
TestVcoSetup ==
    /\ caller \in PllTests
    /\ pc = "start"
    /\ LET v == VcoSetup(pll_strategy, pllsrc, Unwrap(pll_p_target))
       IN  IF v.panic
           THEN /\ pc' = "panicked"
                /\ WriteRge(v)
                /\ UNCHANGED <<ref_x_ck, pll_x_m, pll_x_p, vco_ck_target>>
           ELSE /\ pc' = "vco_setup_done"
                /\ BindVcoSetup(v)
    /\ UNCHANGED <<caller, pll_strategy, pllsrc, pll_p_target, pll_q_target,
                   pll_r_target, pll_x_n, pll_x_fracn, vco_ck_achieved,
                   pll_x_q, pll_x_r, pll_ck>>

\* tests: let pll_x_n = vco_ck_target / ref_x_ck; (panics on a zero divisor)
TestFeedbackDivider ==
    /\ caller \in PllTests
    /\ pc = "vco_setup_done"
    /\ IF Unwrap(ref_x_ck) = 0
       THEN pc' = "panicked" /\ UNCHANGED pll_x_n
       ELSE /\ pll_x_n' = Some(Unwrap(vco_ck_target) \div Unwrap(ref_x_ck))
            /\ pc' = "pll_x_n_done"
    /\ UNCHANGED <<caller, pll_strategy, pllsrc, pll_p_target, pll_q_target,
                   pll_r_target, ref_x_ck, pll_x_m, pll_x_p, vco_ck_target,
                   pll_x_fracn, vco_ck_achieved, pll_x_q, pll_x_r, pllXrge,
                   pll_ck>>

\* calc_fracn: `loop {}`; the call is entered and never returns.
CalcFracn ==
    /\ caller \in {"vco_setup_fractional", "vco_setup_fractional_not_less"}
    /\ pc = "pll_x_n_done"
    /\ pc' = "in_calc_fracn"
    /\ UNCHANGED <<caller, pll_strategy, pllsrc, pll_p_target, pll_q_target,
                   pll_r_target, ref_x_ck, pll_x_m, pll_x_p, vco_ck_target,
                   pll_x_n, pll_x_fracn, vco_ck_achieved, pll_x_q, pll_x_r,
                   pllXrge, pll_ck>>

\* calc_vco_ck: `loop {}`; the call is entered and never returns.
CalcVcoCk ==
    /\ caller \in {"vco_setup_normal", "vco_setup_iterative"}
    /\ pc = "pll_x_n_done"
    /\ pc' = "in_calc_vco_ck"
    /\ UNCHANGED <<caller, pll_strategy, pllsrc, pll_p_target, pll_q_target,
                   pll_r_target, ref_x_ck, pll_x_m, pll_x_p, vco_ck_target,
                   pll_x_n, pll_x_fracn, vco_ck_achieved, pll_x_q, pll_x_r,
                   pllXrge, pll_ck>>

\* A run of pll1_setup on a built Config, or of one of the tests.
PllLocalsInit ==
    /\ pc = "start"
    /\ ref_x_ck = None
    /\ pll_x_m = None
    /\ pll_x_p = None
    /\ vco_ck_target = None
    /\ pll_x_n = None
    /\ pll_x_fracn = None
    /\ vco_ck_achieved = None
    /\ pll_x_q = None
    /\ pll_x_r = None
    /\ pllXrge = "reset"
    /\ pll_ck = None

Pll1SetupInit ==
    /\ \E h \in {None} \cup {Some(f) : f \in PllSrcs},
          p \in {None} \cup {Some(f) : f \in PTargets} :
           config = [ConfigDefault EXCEPT !["hse"] = h, !["pll1_p_ck"] = p]
    /\ supplied = config
    /\ strategy \in [PllUnits -> PllStrategies]
    /\ strategy["pll2"] = "Normal"
    /\ strategy["pll3"] = "Normal"
    /\ bypass_hse = FALSE
    /\ calls = 0
    /\ phase = "building"
    /\ resolved = ConfigDefault
    /\ caller = "pll1_setup"
    /\ pll_strategy = "Normal"
    /\ pllsrc = HSI
    /\ pll_p_target = None
    /\ pll_q_target = None
    /\ pll_r_target = None
    /\ PllLocalsInit

PllTestInit ==
    /\ CfgInit
    /\ caller \in PllTests
    /\ pll_strategy = TestStrategy(caller)
    /\ pllsrc \in PllSrcs
    /\ pll_p_target \in {Some(f) : f \in PTargets}
    /\ \E qr \in QRTargets :
           pll_q_target = Some(qr[1]) /\ pll_r_target = Some(qr[2])
    /\ PllLocalsInit

PllInit == (Pll1SetupInit \/ PllTestInit) /\ FrzIdle /\ QspiIdle

PllNext ==
    \/ Pll1Setup /\ UNCHANGED <<cfgVars, frzVars, qspiVars>>
    \/ TestVcoSetup /\ UNCHANGED <<cfgVars, frzVars, qspiVars>>
    \/ TestFeedbackDivider /\ UNCHANGED <<cfgVars, frzVars, qspiVars>>
    \/ CalcFracn /\ UNCHANGED <<cfgVars, frzVars, qspiVars>>
    \/ CalcVcoCk /\ UNCHANGED <<cfgVars, frzVars, qspiVars>>

PllSpec == PllInit /\ [][PllNext]_vars

\* The run is sequential code: a step that can be taken is taken.
FairPllSpec == PllSpec /\ WF_vars(PllNext)

-----------------------------------------------------------------------------
(* The search for pll_x_m as a function of the source and the target VCO   *)
(* frequency, applied to target frequencies other than the 0 that          *)
(* vco_output_divider_setup! returns.                                      *)

\* Target VCO frequencies: 0, and VCO frequencies of the tests' P targets.
VcoTargets == {0, 48000 * 256 * 32, 480000000, 484000000, 836000000}

MSearchInit ==
    /\ CfgInit
    /\ caller = "min_by_key"
    /\ pll_strategy \in PllStrategies \ {"Normal"}
    /\ pllsrc \in PllSrcs
    /\ vco_ck_target \in {Some(t) : t \in VcoTargets}
    /\ pll_p_target = None
    /\ pll_q_target = None
    /\ pll_r_target = None
    /\ pc = "start"
    /\ ref_x_ck = None
    /\ pll_x_m = None
    /\ pll_x_p = None
    /\ pll_x_n = None
    /\ pll_x_fracn = None
    /\ vco_ck_achieved = None
    /\ pll_x_q = None
    /\ pll_x_r = None
    /\ pllXrge = "reset"
    /\ pll_ck = None
    /\ FrzIdle
    /\ QspiIdle

\* let pll_x_m = (pll_x_m_min..=pll_x_m_max).min_by_key(...).unwrap();
\* let ref_x_ck = pllsrc / pll_x_m;
MSearch ==
    /\ caller = "min_by_key"
    /\ pc = "start"
    /\ LET found == PllXMSearch(pllsrc, Unwrap(vco_ck_target))
       IN  IF found = None
           THEN pc' = "panicked" /\ UNCHANGED <<pll_x_m, ref_x_ck>>
           ELSE /\ pll_x_m' = found
                /\ ref_x_ck' = Some(pllsrc \div Unwrap(found))
                /\ pc' = "searched"
    /\ UNCHANGED <<caller, pll_strategy, pllsrc, pll_p_target, pll_q_target,
                   pll_r_target, pll_x_p, vco_ck_target, pll_x_n, pll_x_fracn,
                   vco_ck_achieved, pll_x_q, pll_x_r, pllXrge, pll_ck>>

MSearchNext == MSearch /\ UNCHANGED <<cfgVars, frzVars, qspiVars>>

MSearchSpec == MSearchInit /\ [][MSearchNext]_vars

-----------------------------------------------------------------------------
(* freeze: the order in which the RCC registers are programmed.  The PLL   *)
(* set-up of every used unit comes first and panics when a unit has no     *)
(* legal dividers; then the oscillators are enabled and awaited, the       *)
(* divider fields of each used PLL are written while that PLL is off, the  *)
(* PLLs are enabled and their lock awaited, the sys clock source is        *)
(* selected, the bus prescalers are programmed and the multiplexer is      *)
(* switched.  HSERDY and PLLxRDY are set by the hardware.                  *)

SysSources == {"HSI", "HSE", "PLL1"}

FreezeInit ==
    /\ CfgInit
    /\ PllIdle
    /\ QspiIdle
    /\ fpc = "start"
    /\ frz_hse \in BOOLEAN
    /\ frz_plls \in SUBSET PllUnits
    /\ frz_sys \in SysSources
    /\ frz_sys = "HSE" => frz_hse
    /\ frz_sys = "PLL1" => "pll1" \in frz_plls
    /\ frz_feasible \in BOOLEAN
    /\ frz_plls = {} => frz_feasible
    /\ RccReset

frzInputs == <<frz_hse, frz_plls, frz_sys, frz_feasible>>

SynthesizePlls ==
    /\ fpc = "start"
    /\ fpc' = IF frz_feasible THEN "oscillators" ELSE "panicked"
    /\ UNCHANGED <<frzInputs, hseon, hserdy, pllon, pllrdy, pll_divs, sw_sel,
                   prescalers, sw>>

EnableOscillators ==
    /\ fpc = "oscillators"
    /\ hseon' = frz_hse
    /\ fpc' = "await_osc"
    /\ UNCHANGED <<frzInputs, hserdy, pllon, pllrdy, pll_divs, sw_sel,
                   prescalers, sw>>

OscillatorReady ==
    /\ hseon
    /\ ~hserdy
    /\ hserdy' = TRUE
    /\ UNCHANGED <<frzInputs, fpc, hseon, pllon, pllrdy, pll_divs, sw_sel,
                   prescalers, sw>>

OscillatorsAwaited ==
    /\ fpc = "await_osc"
    /\ hseon => hserdy
    /\ fpc' = "plls"
    /\ UNCHANGED <<frzInputs, hseon, hserdy, pllon, pllrdy, pll_divs, sw_sel,
                   prescalers, sw>>

WritePllDividers(u) ==
    /\ fpc = "plls"
    /\ u \in frz_plls
    /\ pll_divs[u] = 0
    /\ pll_divs' = [pll_divs EXCEPT ![u] = 1]
    /\ UNCHANGED <<frzInputs, fpc, hseon, hserdy, pllon, pllrdy, sw_sel,
                   prescalers, sw>>

EnableAllowed_Early(u) == TRUE

\* A PLL is enabled after its divider fields have been written.
EnableAllowed(u) == pll_divs[u] > 0

EnablePll(u) ==
    /\ fpc = "plls"
    /\ u \in frz_plls
    /\ ~pllon[u]
    /\ EnableAllowed(u)
    /\ pllon' = [pllon EXCEPT ![u] = TRUE]
    /\ UNCHANGED <<frzInputs, fpc, hseon, hserdy, pllrdy, pll_divs, sw_sel,
                   prescalers, sw>>

PllLocked(u) ==
    /\ pllon[u]
    /\ ~pllrdy[u]
    /\ pllrdy' = [pllrdy EXCEPT ![u] = TRUE]
    /\ UNCHANGED <<frzInputs, fpc, hseon, hserdy, pllon, pll_divs, sw_sel,
                   prescalers, sw>>

LockAwaited_NoWait == TRUE

\* The wait for lock ends when every used PLL is enabled and locked.
LockAwaited == \A u \in frz_plls : pllon[u] /\ pllrdy[u]

PllsAwaited ==
    /\ fpc = "plls"
    /\ LockAwaited
    /\ fpc' = "select"
    /\ UNCHANGED <<frzInputs, hseon, hserdy, pllon, pllrdy, pll_divs, sw_sel,
                   prescalers, sw>>

SelectSysClockSource ==
    /\ fpc = "select"
    /\ sw_sel' = frz_sys
    /\ fpc' = "prescalers"
    /\ UNCHANGED <<frzInputs, hseon, hserdy, pllon, pllrdy, pll_divs,
                   prescalers, sw>>

ProgramBusPrescalers ==
    /\ fpc = "prescalers"
    /\ prescalers' = TRUE
    /\ fpc' = "switch"
    /\ UNCHANGED <<frzInputs, hseon, hserdy, pllon, pllrdy, pll_divs, sw_sel,
                   sw>>

SwitchSysClockMux ==
    /\ fpc = "switch"
    /\ sw' = sw_sel
    /\ fpc' = "done"
    /\ UNCHANGED <<frzInputs, hseon, hserdy, pllon, pllrdy, pll_divs, sw_sel,
                   prescalers>>

WritePllDividersStep == \E u \in PllUnits : WritePllDividers(u)

EnablePllStep == \E u \in PllUnits : EnablePll(u)

PllLockedStep == \E u \in PllUnits : PllLocked(u)

FreezeNext ==
    \/ SynthesizePlls /\ UNCHANGED <<cfgVars, pllVars, qspiVars>>
    \/ EnableOscillators /\ UNCHANGED <<cfgVars, pllVars, qspiVars>>
    \/ OscillatorReady /\ UNCHANGED <<cfgVars, pllVars, qspiVars>>
    \/ OscillatorsAwaited /\ UNCHANGED <<cfgVars, pllVars, qspiVars>>
    \/ WritePllDividersStep /\ UNCHANGED <<cfgVars, pllVars, qspiVars>>
    \/ EnablePllStep /\ UNCHANGED <<cfgVars, pllVars, qspiVars>>
    \/ PllLockedStep /\ UNCHANGED <<cfgVars, pllVars, qspiVars>>
    \/ PllsAwaited /\ UNCHANGED <<cfgVars, pllVars, qspiVars>>
    \/ SelectSysClockSource /\ UNCHANGED <<cfgVars, pllVars, qspiVars>>
    \/ ProgramBusPrescalers /\ UNCHANGED <<cfgVars, pllVars, qspiVars>>
    \/ SwitchSysClockMux /\ UNCHANGED <<cfgVars, pllVars, qspiVars>>

FreezeSpec == FreezeInit /\ [][FreezeNext]_vars

-----------------------------------------------------------------------------
(* Peripheral enable/reset handles (rcc::rec) and Qspi::qspi_unchecked     *)
(* (xspi/qspi.rs).  A handle is a value that is moved: a pair              *)
(* <<peripheral, owner>> in the set of live handles.  The program is       *)
(* single-threaded: the holder of a handle acts only while the             *)
(* constructor is not running, and nothing runs after a panic.             *)

HandleOps == {"enable", "disable", "reset"}

Banks == {"One", "Two", "Dual"}

KernelClocks == {None, Some(HSI), Some(200000000)}

QspiFrequencies == {0, 249999, 250000, 3000000, 400000000}

FifoThresholds == {0, 1}

MoveFrom_Copy(hs, p, from) == hs

\* Passing a handle by value takes it away from where it was.
MoveFrom(hs, p, from) == hs \ {<<p, from>>}

UserRuns == qpc \in {"idle", "done"}

QspiInit ==
    /\ CfgInit
    /\ PllIdle
    /\ FrzIdle
    /\ handles = {<<p, "ccdr">> : p \in RecPeripherals}
    /\ rcc_en = [p \in RecPeripherals |-> FALSE]
    /\ consumed = [p \in RecPeripherals |-> FALSE]
    /\ late_op = [p \in RecPeripherals |-> FALSE]
    /\ cr_en \in BOOLEAN
    /\ QspiLocalsIdle

qspiLocals == <<q_kernel_ck, q_frequency, q_bank, q_fthres, q_checks>>

\* let prec = ccdr.peripheral.P;
TakeHandle(p) ==
    /\ UserRuns
    /\ <<p, "ccdr">> \in handles
    /\ handles' = MoveFrom(handles, p, "ccdr") \cup {<<p, "user">>}
    /\ UNCHANGED <<rcc_en, consumed, late_op, qpc, qspiLocals, cr_en,
                   sr_busy, qspi_log>>

\* prec.enable(), prec.disable(), prec.reset() by the holder o of the handle
HolderOp(p, o, op) ==
    /\ UserRuns
    /\ <<p, o>> \in handles
    /\ rcc_en' = [rcc_en EXCEPT ![p] = CASE op = "enable" -> TRUE
                                         [] op = "disable" -> FALSE
                                         [] OTHER -> @]
    /\ late_op' = [late_op EXCEPT ![p] = @ \/ consumed[p]]
    /\ UNCHANGED <<handles, consumed, qpc, qspiLocals, cr_en, sr_busy,
                   qspi_log>>

\* dp.GPIOG.split(ccdr.peripheral.GPIOG)
GpioSplit(o) ==
    /\ UserRuns
    /\ <<"GPIOG", o>> \in handles
    /\ handles' = MoveFrom(handles, "GPIOG", o) \cup {<<"GPIOG", "driver">>}
    /\ consumed' = [consumed EXCEPT !["GPIOG"] = TRUE]
    /\ rcc_en' = [rcc_en EXCEPT !["GPIOG"] = TRUE]
    /\ UNCHANGED <<late_op, qpc, qspiLocals, cr_en, sr_busy, qspi_log>>

\* dp.QUADSPI.bank1(..), bank2(..), qspi_unchecked(..): the call of
\* Qspi::qspi_unchecked(regs, config, bank, clocks, prec)
QspiUncheckedCall(o) ==
    /\ qpc = "idle"
    /\ <<"QSPI", o>> \in handles
    /\ handles' = MoveFrom(handles, "QSPI", o) \cup {<<"QSPI", "driver">>}
    /\ consumed' = [consumed EXCEPT !["QSPI"] = TRUE]
    /\ q_kernel_ck' \in KernelClocks
    /\ q_frequency' \in QspiFrequencies
    /\ q_bank' \in Banks
    /\ q_fthres' \in FifoThresholds
    /\ q_checks' \in BOOLEAN
    /\ q_fthres' # 0 => q_checks'
    /\ sr_busy' \in BOOLEAN
    /\ qpc' = "start"
    /\ UNCHANGED <<rcc_en, late_op, cr_en, qspi_log>>

\* prec.enable();
QspiPrecEnable ==
    /\ qpc = "start"
    /\ rcc_en' = [rcc_en EXCEPT !["QSPI"] = TRUE]
    /\ qpc' = "enabled"
    /\ UNCHANGED <<handles, consumed, late_op, qspiLocals, cr_en, sr_busy,
                   qspi_log>>

\* regs.cr.write(|w| w.en().clear_bit());
QspiDisable ==
    /\ qpc = "enabled"
    /\ cr_en' = FALSE
    /\ qspi_log' = Append(qspi_log, <<"cr", "en", 0>>)
    /\ qpc' = "get_clock"
    /\ UNCHANGED <<handles, rcc_en, consumed, late_op, qspiLocals, sr_busy>>

\* match Self::get_clock(clocks) { Some(freq_hz) => .., _ => panic!(..) }
QspiGetClock ==
    /\ qpc = "get_clock"
    /\ qpc' = IF IsSome(q_kernel_ck) THEN "poll" ELSE "panicked"
    /\ UNCHANGED <<handles, rcc_en, consumed, late_op, qspiLocals, cr_en,
                   sr_busy, qspi_log>>

\* while regs.sr.read().busy().bit_is_set() {}
QspiPollBusy ==
    /\ qpc = "poll"
    /\ qspi_log' = IF qspi_log[Len(qspi_log)] = <<"sr", "busy", 0>>
                   THEN qspi_log
                   ELSE Append(qspi_log, <<"sr", "busy", 0>>)
    /\ qpc' = IF sr_busy THEN "poll" ELSE "dcr"
    /\ UNCHANGED <<handles, rcc_en, consumed, late_op, qspiLocals, cr_en,
                   sr_busy>>

\* The hardware ends the transfer in progress.
QspiNotBusy ==
    /\ sr_busy
    /\ sr_busy' = FALSE
    /\ UNCHANGED <<handles, rcc_en, consumed, late_op, qpc, qspiLocals,
                   cr_en, qspi_log>>

\* regs.dcr.write(|w| unsafe { w.fsize().bits(0x1F) });
QspiWriteDcr ==
    /\ qpc = "dcr"
    /\ qspi_log' = Append(qspi_log, <<"dcr", "fsize", 31>>)
    /\ qpc' = "fcr"
    /\ UNCHANGED <<handles, rcc_en, consumed, late_op, qspiLocals, cr_en,
                   sr_busy>>

\* regs.fcr.write(|w| w.ctof().set_bit().csmf().set_bit()...);
QspiWriteFcr ==
    /\ qpc = "fcr"
    /\ qspi_log' = Append(qspi_log, <<"fcr", "flags", 1>>)
    /\ qpc' = "ccr"
    /\ UNCHANGED <<handles, rcc_en, consumed, late_op, qspiLocals, cr_en,
                   sr_busy>>

\* regs.ccr.write(|w| unsafe { w.fmode().bits(0)... });
QspiWriteCcr ==
    /\ qpc = "ccr"
    /\ qspi_log' = Append(qspi_log, <<"ccr", "fmode", 0>>)
    /\ qpc' = "divisor"
    /\ UNCHANGED <<handles, rcc_en, consumed, late_op, qspiLocals, cr_en,
                   sr_busy>>

\* (spi_kernel_ck + spi_frequency - 1) / spi_frequency
QspiDivisor == (Unwrap(q_kernel_ck) + q_frequency - 1) \div q_frequency

QspiDivisorValid_NoUpper(d) == d >= 1

\* divisor @ 1..=256
QspiDivisorValid(d) == d >= 1 /\ d <= 256

\* let divisor = match .. { divisor @ 1..=256 => divisor - 1,
\*                          _ => panic!(..) };  a division by zero panics.
QspiDivide ==
    /\ qpc = "divisor"
    /\ qpc' = IF q_frequency # 0 /\ QspiDivisorValid(QspiDivisor)
              THEN "cr"
              ELSE "panicked"
    /\ UNCHANGED <<handles, rcc_en, consumed, late_op, qspiLocals, cr_en,
                   sr_busy, qspi_log>>

\* regs.cr.write(|w| unsafe { w.prescaler().bits(divisor as u8).sshift()..
\*     .fthres().bits(config.fifo_threshold - 1) });
\* fifo_threshold - 1 of 0u8 panics in a build with overflow checks and
\* wraps in one without.
QspiWriteCr ==
    /\ qpc = "cr"
    /\ IF q_fthres = 0 /\ q_checks
       THEN /\ qpc' = "panicked"
            /\ UNCHANGED <<cr_en, qspi_log>>
       ELSE /\ cr_en' = FALSE
            /\ qspi_log' = Append(qspi_log,
                                  <<"cr", "prescaler", (QspiDivisor - 1) % 256>>)
            /\ qpc' = "bank"
    /\ UNCHANGED <<handles, rcc_en, consumed, late_op, qspiLocals, sr_busy>>

\* match bank { One => fsel clear, Two => fsel set, Dual => dfm set }
QspiSelectBank ==
    /\ qpc = "bank"
    /\ qspi_log' = Append(qspi_log,
                          CASE q_bank = "One" -> <<"cr", "fsel", 0>>
                            [] q_bank = "Two" -> <<"cr", "fsel", 1>>
                            [] OTHER -> <<"cr", "dfm", 1>>)
    /\ qpc' = "enable"
    /\ UNCHANGED <<handles, rcc_en, consumed, late_op, qspiLocals, cr_en,
                   sr_busy>>

\* regs.cr.modify(|_, w| w.en().set_bit()); Qspi { rb: regs, .. }
QspiEnable ==
    /\ qpc = "enable"
    /\ cr_en' = TRUE
    /\ qspi_log' = Append(qspi_log, <<"cr", "en", 1>>)
    /\ qpc' = "done"
    /\ UNCHANGED <<handles, rcc_en, consumed, late_op, qspiLocals, sr_busy>>

Holders == {"ccdr", "user"}

TakeHandleStep == \E p \in RecPeripherals : TakeHandle(p)

HolderOpStep ==
    \E p \in RecPeripherals, o \in Holders, op \in HandleOps :
        HolderOp(p, o, op)

GpioSplitStep == \E o \in Holders : GpioSplit(o)

QspiUncheckedCallStep == \E o \in Holders : QspiUncheckedCall(o)

QspiNext ==
    \/ TakeHandleStep /\ UNCHANGED <<cfgVars, pllVars, frzVars>>
    \/ HolderOpStep /\ UNCHANGED <<cfgVars, pllVars, frzVars>>
    \/ GpioSplitStep /\ UNCHANGED <<cfgVars, pllVars, frzVars>>
    \/ QspiUncheckedCallStep /\ UNCHANGED <<cfgVars, pllVars, frzVars>>
    \/ QspiPrecEnable /\ UNCHANGED <<cfgVars, pllVars, frzVars>>
    \/ QspiDisable /\ UNCHANGED <<cfgVars, pllVars, frzVars>>
    \/ QspiGetClock /\ UNCHANGED <<cfgVars, pllVars, frzVars>>
    \/ QspiPollBusy /\ UNCHANGED <<cfgVars, pllVars, frzVars>>
    \/ QspiNotBusy /\ UNCHANGED <<cfgVars, pllVars, frzVars>>
    \/ QspiWriteDcr /\ UNCHANGED <<cfgVars, pllVars, frzVars>>
    \/ QspiWriteFcr /\ UNCHANGED <<cfgVars, pllVars, frzVars>>
    \/ QspiWriteCcr /\ UNCHANGED <<cfgVars, pllVars, frzVars>>
    \/ QspiDivide /\ UNCHANGED <<cfgVars, pllVars, frzVars>>
    \/ QspiWriteCr /\ UNCHANGED <<cfgVars, pllVars, frzVars>>
    \/ QspiSelectBank /\ UNCHANGED <<cfgVars, pllVars, frzVars>>
    \/ QspiEnable /\ UNCHANGED <<cfgVars, pllVars, frzVars>>

QspiSpec == QspiInit /\ [][QspiNext]_vars

-----------------------------------------------------------------------------
(* Implied clock specifications: claims                                    *)

Frozen == phase = "frozen"

NotSupplied(f) == supplied[f] = None

OnlySupplied(fs) == \A f \in ClockFields : IsSome(supplied[f]) <=> f \in fs

\* C1: every clock specification the user supplied explicitly appears
\* unchanged in the resolved clock specifications, whichever implication
\* rule would otherwise apply and in whatever order the setters were called.
C1_ExplicitOverride ==
    Frozen => \A f \in ClockFields :
                  IsSome(supplied[f]) => resolved[f] = supplied[f]

\* C1 witness: sys_ck, pll1_p_ck and pll1_r_ck all supplied, with values
\* that rules 2 and 3 would not have implied, and all three kept.
C1_Witness ==
    /\ Frozen
    /\ supplied["sys_ck"] = Some(200000000)
    /\ supplied["pll1_p_ck"] = Some(33333333)
    /\ supplied["pll1_r_ck"] = Some(25000000)
    /\ resolved["pll1_p_ck"] = Some(33333333)
    /\ resolved["pll1_r_ck"] = Some(25000000)

\* C2 as stated: a resolved system clock other than 64 MHz implies
\* pll1_p_ck of the same frequency (unless pll1_p_ck was set); a resolved
\* system clock of 64 MHz implies none.
C2_AsStated ==
    (Frozen /\ NotSupplied("pll1_p_ck")) =>
        /\ (IsSome(resolved["sys_ck"]) /\ resolved["sys_ck"] # Some(HSI))
               => resolved["pll1_p_ck"] = resolved["sys_ck"]
        /\ resolved["sys_ck"] = Some(HSI) => resolved["pll1_p_ck"] = None

\* C2 amended: a resolved system clock that is neither 64 MHz nor the
\* frequency given to use_hse implies pll1_p_ck of the same frequency
\* (unless pll1_p_ck was set); a resolved system clock of 64 MHz implies
\* none.
C2_Rule2 ==
    (Frozen /\ NotSupplied("pll1_p_ck")) =>
        /\ (/\ IsSome(resolved["sys_ck"])
            /\ resolved["sys_ck"] # Some(HSI)
            /\ resolved["sys_ck"] # supplied["hse"])
               => resolved["pll1_p_ck"] = resolved["sys_ck"]
        /\ resolved["sys_ck"] = Some(HSI) => resolved["pll1_p_ck"] = None

\* C2 witness: both cases of the rule, sys_ck(200 MHz) with use_hse(25 MHz)
\* implying pll1_p_ck(200 MHz), and sys_ck(64 MHz) implying none.
C2_Witness ==
    /\ Frozen
    /\ NotSupplied("pll1_p_ck")
    /\ \/ /\ supplied["sys_ck"] = Some(200000000)
          /\ supplied["hse"] = Some(25000000)
          /\ resolved["pll1_p_ck"] = Some(200000000)
       \/ /\ supplied["sys_ck"] = Some(HSI)
          /\ supplied["hse"] = Some(25000000)
          /\ resolved["pll1_p_ck"] = None

\* C3: with use_hse(b) specified and the system clock resolved to that
\* same b, no pll1_p_ck is implied, even though b is not 64 MHz.
C3_NoPllWhenSysIsHse ==
    (/\ Frozen
     /\ NotSupplied("pll1_p_ck")
     /\ IsSome(supplied["hse"])
     /\ resolved["sys_ck"] = supplied["hse"])
        => resolved["pll1_p_ck"] = None

\* C3 witness: use_hse(25 MHz) alone: sys_ck is implied, pll1_p_ck is not.
C3_Witness ==
    /\ Frozen
    /\ OnlySupplied({"hse"})
    /\ supplied["hse"] = Some(25000000)
    /\ resolved["sys_ck"] = Some(25000000)
    /\ resolved["pll1_p_ck"] = None

\* C4: a resolved pll1_p_ck of f implies pll1_r_ck of f / 2 (integer
\* division) unless pll1_r_ck was set, whether pll1_p_ck was set or implied
\* by sys_ck; sys_ck(c) alone, c not 64 MHz, resolves to pll1_p_ck = c and
\* pll1_r_ck = c / 2.
C4_Rule3Cascade ==
    Frozen =>
        /\ (IsSome(resolved["pll1_p_ck"]) /\ NotSupplied("pll1_r_ck"))
               => resolved["pll1_r_ck"]
                      = Some(Unwrap(resolved["pll1_p_ck"]) \div 2)
        /\ (OnlySupplied({"sys_ck"}) /\ supplied["sys_ck"] # Some(HSI))
               => /\ resolved["pll1_p_ck"] = supplied["sys_ck"]
                  /\ resolved["pll1_r_ck"]
                         = Some(Unwrap(supplied["sys_ck"]) \div 2)

\* C4 witness: sys_ck(33,333,333 Hz) alone cascades to pll1_p_ck of the
\* same frequency and pll1_r_ck of 16,666,666 Hz.
C4_Witness ==
    /\ Frozen
    /\ OnlySupplied({"sys_ck"})
    /\ supplied["sys_ck"] = Some(33333333)
    /\ resolved["pll1_p_ck"] = Some(33333333)
    /\ resolved["pll1_r_ck"] = Some(16666666)

-----------------------------------------------------------------------------
(* PLL set-up: claims.  A test is at "done" once its last statement has     *)
(* run; the f32 quotients the tests compare (pllsrc / pll_x_m and           *)
(* vco_ck_achieved / pll_x_d) are compared here by cross-multiplication,    *)
(* a quotient by zero (inf or NaN in f32) failing every assertion.          *)

VcoSetupReturned == IsSome(ref_x_ck) /\ IsSome(pll_x_m)

\* The input divider's range is not empty for this source frequency.
FeasibleSrc == pllsrc >= 2000000 /\ pllsrc <= 1008000000

\* |vco / d - target| < target / k
WithinFraction(vco, d, target, k) ==
    /\ d # 0
    /\ vco - target * d < (target * d) \div k
    /\ target * d - vco < (target * d) \div k

\* C5 as stated: under every strategy the reference frequency that
\* vco_setup! returns lies in [2 MHz, 16 MHz].
C5_AsStated ==
    (VcoSetupReturned /\ FeasibleSrc) =>
        /\ Unwrap(ref_x_ck) >= 2000000
        /\ Unwrap(ref_x_ck) <= 16000000

\* C5 amended: under the Iterative, Fractional and FractionalNotLess
\* strategies, whenever vco_setup! returns, M lies in
\* ceil(f_in / 16 MHz) ..= floor(f_in / 2 MHz), at most 63, and the
\* reference frequency f_in / M lies in [2 MHz, 16 MHz].
C5_ReferenceInBand ==
    (VcoSetupReturned /\ pll_strategy # "Normal") =>
        /\ Unwrap(pll_x_m) >= 1
        /\ Unwrap(pll_x_m) <= 63
        /\ Unwrap(pll_x_m) * 16000000 >= pllsrc
        /\ Unwrap(pll_x_m) * 2000000 <= pllsrc
        /\ Unwrap(ref_x_ck) = pllsrc \div Unwrap(pll_x_m)
        /\ Unwrap(ref_x_ck) >= 2000000
        /\ Unwrap(ref_x_ck) <= 16000000

\* C5 witness: vco_setup! has returned under two of the strategies, for a
\* 25 MHz crystal (M = 2, reference 12.5 MHz) and at the 63 clamp
\* (1008 MHz, reference 16 MHz).
C5_Witness ==
    /\ VcoSetupReturned
    /\ \/ /\ pll_strategy = "Fractional"
          /\ pllsrc = 25000000
          /\ pll_x_m = Some(2)
          /\ ref_x_ck = Some(12500000)
       \/ /\ pll_strategy = "Iterative"
          /\ pllsrc = 1008000000
          /\ pll_x_m = Some(63)
          /\ ref_x_ck = Some(16000000)

\* C6 as stated: in vco_setup_normal (pllsrc 25 MHz, P target 242 MHz) the
\* M that vco_setup!(NORMAL) returns gives 1 MHz < pllsrc / M < 2 MHz, and
\* the achieved P output is within 1% of the target.
C6_AsStated ==
    (/\ caller = "vco_setup_normal"
     /\ pllsrc = 25000000
     /\ pll_p_target = Some(242000000)
     /\ VcoSetupReturned)
        => /\ Unwrap(pll_x_m) # 0
           /\ Unwrap(pll_x_m) * 1000000 < pllsrc
           /\ pllsrc < Unwrap(pll_x_m) * 2000000
           /\ IsSome(vco_ck_achieved)
                  => WithinFraction(Unwrap(vco_ck_achieved), Unwrap(pll_x_p),
                                    Unwrap(pll_p_target), 100)

\* C7 as stated: in vco_setup_iterative (pllsrc 25 MHz, P target 240 MHz)
\* M is 5, the reference exactly 5 MHz, the achieved P output
\* reference * N / P exactly 240 MHz, and the achieved Q and R outputs
\* exactly their targets.
C7_AsStated ==
    (/\ caller = "vco_setup_iterative"
     /\ pllsrc = 25000000
     /\ pll_p_target = Some(240000000)
     /\ VcoSetupReturned)
        => /\ pll_x_m = Some(5)
           /\ ref_x_ck = Some(5000000)
           /\ IsSome(pll_x_n)
                  => /\ Unwrap(pll_x_p) # 0
                     /\ Unwrap(ref_x_ck) * Unwrap(pll_x_n)
                            = 240000000 * Unwrap(pll_x_p)
           /\ IsSome(pll_x_q)
                  => Unwrap(vco_ck_achieved)
                         = Unwrap(pll_q_target) * Unwrap(pll_x_q)
           /\ IsSome(pll_x_r)
                  => Unwrap(vco_ck_achieved)
                         = Unwrap(pll_r_target) * Unwrap(pll_x_r)

\* C8 as stated: the Fractional set-up yields an achieved P output that
\* does not exceed the P target and is closer to it than target / 500,000;
\* stated for the tested input, 16 MHz and a P target of 48,000 * 256 Hz.
C8_AsStated ==
    (/\ caller = "vco_setup_fractional"
     /\ pc = "start"
     /\ pllsrc = 16000000
     /\ pll_p_target = Some(48000 * 256))
        ~> (/\ pc = "done"
            /\ IsSome(pll_x_fracn)
            /\ IsSome(vco_ck_achieved)
            /\ Unwrap(vco_ck_achieved)
                   <= Unwrap(pll_p_target) * Unwrap(pll_x_p)
            /\ WithinFraction(Unwrap(vco_ck_achieved), Unwrap(pll_x_p),
                              Unwrap(pll_p_target), 500000))

\* C9 as stated: the FractionalNotLess set-up (FRACN = calc_fracn(...) + 1)
\* yields an achieved P output not less than the P target and closer to it
\* than target / 500,000, and achieved Q and R outputs not less than their
\* targets; stated for the tested input, 16 MHz and a P target of
\* 48,000 * 256 Hz.
C9_AsStated ==
    (/\ caller = "vco_setup_fractional_not_less"
     /\ pc = "start"
     /\ pllsrc = 16000000
     /\ pll_p_target = Some(48000 * 256))
        ~> (/\ pc = "done"
            /\ IsSome(pll_x_fracn)
            /\ IsSome(vco_ck_achieved)
            /\ Unwrap(vco_ck_achieved)
                   >= Unwrap(pll_p_target) * Unwrap(pll_x_p)
            /\ WithinFraction(Unwrap(vco_ck_achieved), Unwrap(pll_x_p),
                              Unwrap(pll_p_target), 500000)
            /\ IsSome(pll_x_q)
            /\ Unwrap(vco_ck_achieved)
                   >= Unwrap(pll_q_target) * Unwrap(pll_x_q)
            /\ IsSome(pll_x_r)
            /\ Unwrap(vco_ck_achieved)
                   >= Unwrap(pll_r_target) * Unwrap(pll_x_r))

\* C10 as stated: under Normal and Iterative, the achieved Q and R outputs
\* (achieved VCO over the divider calc_ck_div returns) are within 1% of
\* their targets; stated for the tested source, 25 MHz, and every P, Q and
\* R target drawn.
C10_AsStated ==
    (/\ caller \in {"vco_setup_normal", "vco_setup_iterative"}
     /\ pc = "start"
     /\ pllsrc = 25000000)
        ~> (/\ pc = "done"
            /\ IsSome(pll_x_q)
            /\ IsSome(pll_x_r)
            /\ WithinFraction(Unwrap(vco_ck_achieved), Unwrap(pll_x_q),
                              Unwrap(pll_q_target), 100)
            /\ WithinFraction(Unwrap(vco_ck_achieved), Unwrap(pll_x_r),
                              Unwrap(pll_r_target), 100))

\* C11 as stated: every requested PLL output is achieved at a frequency
\* not above its target; stated for vco_setup_fractional, whose
\* assertions say so of P, Q and R (16 MHz, P target 48,000 * 256 Hz).
C11_AsStated ==
    (/\ caller = "vco_setup_fractional"
     /\ pc = "start"
     /\ pllsrc = 16000000
     /\ pll_p_target = Some(48000 * 256))
        ~> (/\ pc = "done"
            /\ IsSome(vco_ck_achieved)
            /\ IsSome(pll_x_q)
            /\ IsSome(pll_x_r)
            /\ Unwrap(pll_x_p) # 0
            /\ Unwrap(pll_x_q) # 0
            /\ Unwrap(pll_x_r) # 0
            /\ Unwrap(vco_ck_achieved)
                   <= Unwrap(pll_p_target) * Unwrap(pll_x_p)
            /\ Unwrap(vco_ck_achieved)
                   <= Unwrap(pll_q_target) * Unwrap(pll_x_q)
            /\ Unwrap(vco_ck_achieved)
                   <= Unwrap(pll_r_target) * Unwrap(pll_x_r))

\* The legal input dividers of a source frequency: ceil(src / 16 MHz) ..=
\* floor(src / 2 MHz), at most 63.
LegalM(src) ==
    {x \in 1..63 : x * 16000000 >= src /\ x * 2000000 <= src}

\* C12 as stated: under Iterative, Fractional and FractionalNotLess, an
\* empty range of legal input dividers ends the set-up in a panic that
\* yields no divider; a set-up that succeeds has 1 <= M <= 63 and yields
\* no divider the hardware does not support (a divider is at least 1).
C12_AsStated ==
    (pll_strategy # "Normal" /\ pc # "start" /\ IsSome(pll_p_target)) =>
        /\ LegalM(pllsrc) = {}
               => /\ pc = "panicked"
                  /\ pll_x_m = None
                  /\ pll_x_p = None
                  /\ pll_ck = None
        /\ VcoSetupReturned
               => /\ Unwrap(pll_x_m) >= 1
                  /\ Unwrap(pll_x_m) <= 63
                  /\ Unwrap(pll_x_p) >= 1

\* The distance from the target VCO frequency to the closest integer-N VCO
\* frequency not above it, for input divider x
VcoDistance(src, target, x) ==
    target - (src \div x) * (target \div (src \div x))

\* C16: the M that the iterative search chooses is a legal input divider
\* that minimizes the distance from the target VCO frequency to the
\* closest integer-N VCO frequency; the distance is never negative; among
\* the dividers of the least distance the lowest is chosen.
C16_IterativeSearch ==
    (caller = "min_by_key" /\ pc = "searched") =>
        LET m == Unwrap(pll_x_m)
            t == Unwrap(vco_ck_target)
        IN  /\ m \in LegalM(pllsrc)
            /\ \A x \in LegalM(pllsrc) :
                   /\ VcoDistance(pllsrc, t, x) >= 0
                   /\ VcoDistance(pllsrc, t, m) <= VcoDistance(pllsrc, t, x)
                   /\ VcoDistance(pllsrc, t, m) = VcoDistance(pllsrc, t, x)
                          => m <= x

\* C16 witness: for 25 MHz and a target VCO of 480 MHz the search passes
\* over M = 2, 3 and 4 and chooses M = 5, the lowest of the dividers of
\* distance 0 (5 and 10).
C16_Witness ==
    /\ caller = "min_by_key"
    /\ pc = "searched"
    /\ pllsrc = 25000000
    /\ vco_ck_target = Some(480000000)
    /\ pll_x_m = Some(5)
    /\ VcoDistance(25000000, 480000000, 2) > 0
    /\ VcoDistance(25000000, 480000000, 10) = 0

\* C17: a PLL set-up that ends in a panic has written no register field
\* before it; pllXrge, which vco_setup!(ITERATIVE) writes, is still at its
\* reset value.
C17_NoWriteBeforeFailure ==
    pc = "panicked" => pllXrge = "reset" /\ pll_ck = None

\* C17 witness: pll1_setup under Iterative with use_hse(1 MHz): the range
\* of input dividers is empty and the set-up has panicked.
C17_Witness ==
    /\ caller = "pll1_setup"
    /\ pll_strategy = "Iterative"
    /\ pllsrc = 1000000
    /\ IsSome(pll_p_target)
    /\ pc = "panicked"
    /\ pllXrge = "reset"

-----------------------------------------------------------------------------
(* freeze: claims                                                          *)

\* C13: the system clock multiplexer selects a PLL only when that PLL is
\* enabled and locked.
C13_MuxOnlyToLockedPll ==
    sw = "PLL1" => pllon["pll1"] /\ pllrdy["pll1"]

\* C13 witness: freeze has run to its end with all three PLLs in use and
\* the multiplexer switched to PLL1.
C13_Witness ==
    /\ fpc = "done"
    /\ frz_plls = PllUnits
    /\ sw = "PLL1"
    /\ pllrdy["pll1"]

\* C14: every write of a PLL's divider fields happens while that PLL is
\* disabled.
C14_DividersOnlyWhileDisabled ==
    [][\A u \in PllUnits : pll_divs'[u] # pll_divs[u] => ~pllon[u]]_vars

\* C14 witness: the dividers of PLL2 have been written, PLL2 still off,
\* while PLL1 is already enabled and locked.
C14_Witness ==
    /\ fpc = "plls"
    /\ pll_divs["pll2"] = 1
    /\ ~pllon["pll2"]
    /\ pllon["pll1"]
    /\ pllrdy["pll1"]

-----------------------------------------------------------------------------
(* Peripheral handles and Qspi::qspi_unchecked: claims                     *)

HandlesOf(p) == {h \in handles : h[1] = p}

\* C15: a peripheral's enable/reset handle has at most one live owner; once
\* it has been passed to a driver constructor, neither the Ccdr nor the
\* caller holds it any more and no enable, disable or reset is issued on it
\* by them.
C15_MoveOnce ==
    \A p \in RecPeripherals :
        /\ Cardinality(HandlesOf(p)) <= 1
        /\ consumed[p] => /\ HandlesOf(p) = {<<p, "driver">>}
                          /\ ~late_op[p]

\* C15 witness: the QSPI handle was taken out of the Ccdr, used by its
\* holder and passed to qspi_unchecked, which has returned; the GPIOG
\* handle went to split.
C15_Witness ==
    /\ qpc = "done"
    /\ consumed["QSPI"]
    /\ consumed["GPIOG"]
    /\ handles = {<<"QSPI", "driver">>, <<"GPIOG", "driver">>}

ConfigWrites ==
    {<<"dcr", "fsize", 31>>, <<"fcr", "flags", 1>>, <<"ccr", "fmode", 0>>}

QspiLogged(e) == \E i \in 1..Len(qspi_log) : qspi_log[i] = e

QspiInfeasible ==
    \/ q_kernel_ck = None
    \/ q_frequency = 0
    \/ LET d == (Unwrap(q_kernel_ck) + q_frequency - 1) \div q_frequency
       IN  d < 1 \/ d > 256

\* C19: in qspi_unchecked the peripheral clock is enabled before any
\* QUADSPI register is accessed; the first access clears EN, so EN is clear
\* before any configuration register is written; EN is set only by the
\* last register write, after DCR, FCR, CCR, the CR prescaler and the bank
\* selection; without a kernel clock, or with a divisor outside 1..=256,
\* the function never gets past the divisor and EN is never set.
C19_QspiInitOrder ==
    LET n == Len(qspi_log)
    IN  /\ n > 0 => rcc_en["QSPI"] /\ qspi_log[1] = <<"cr", "en", 0>>
        /\ \A i \in 1..n :
               qspi_log[i] = <<"cr", "en", 1>>
                   => /\ i = n
                      /\ n = 8
                      /\ qpc = "done"
                      /\ \A e \in ConfigWrites : QspiLogged(e)
                      /\ qspi_log[n - 2][2] = "prescaler"
                      /\ qspi_log[n - 1][2] \in {"fsel", "dfm"}
        /\ n > 0 => (cr_en <=> qspi_log[n] = <<"cr", "en", 1>>)
        /\ (qpc # "idle" /\ QspiInfeasible)
               => /\ qpc \in {"start", "enabled", "get_clock", "poll", "dcr",
                              "fcr", "ccr", "divisor", "panicked"}
                  /\ ~QspiLogged(<<"cr", "en", 1>>)
                  /\ q_kernel_ck = None
                         => qpc \in {"start", "enabled", "get_clock",
                                     "panicked"}

\* C19 witness: qspi_unchecked has returned for bank 2 with a kernel clock
\* of 64 MHz and 250 kHz requested (divisor 256): EN is set, by the eighth
\* and last access.
C19_Witness ==
    /\ qpc = "done"
    /\ q_kernel_ck = Some(HSI)
    /\ q_frequency = 250000
    /\ q_bank = "Two"
    /\ cr_en
    /\ Len(qspi_log) = 8
    /\ qspi_log[6] = <<"cr", "prescaler", 255>>
    /\ qspi_log[8] = <<"cr", "en", 1>>

====
